---- MODULE Spec2Model ----
(***************************************************************************)
(* Model of the family-tree backend (backend/app/crud.py, models.py).      *)
(*                                                                         *)
(* The relational store is the record `db`; every handler of crud.py is    *)
(* one action on it.  import_family runs inside one transaction            *)
(* (`with db.begin()`), so its position, its local maps and the            *)
(* transaction's working copy of the store are the record `imp`; the       *)
(* committed store changes only where the code commits.                    *)
(*                                                                         *)
(* Ids are uuid4 strings in the code; here they are numbers handed out by  *)
(* counters that never go back, so an id is never reused.  None is 0.      *)
(* Member rows carry the attributes crud.py writes to and reads from them  *)
(* (family_id, position_x, position_y); the other columns (name, gender,   *)
(* dates ...) are copied verbatim by every handler and are left out.       *)
(***************************************************************************)
EXTENDS Integers, Sequences, FiniteSets, TLC

(***************************************************************************)
(* Bounds of the model.                                                    *)
(***************************************************************************)
MaxFamilies == 3
MaxMembers == 3
MaxRegions == 2
MaxDocRegions == 1
MaxRels == 2
MaxDocMembers == 2
MaxDocRels == 2
MaxSourceIds == 3

None == 0

Users == {1}
Coords == {0, 1}
Dates == {None, 1}
RelTypes == {"father", "mother"}

\* get_family_graph caps the member query with .limit(1000)
GraphLimit == 1000

\* ids a document can carry that never denote a row of this store
ExtMemberId == MaxMembers + 100
ExtFamilyId == MaxFamilies + 100

VARIABLES
    db,          \* the committed relational store
    nextId,      \* per table, the next fresh id (uuid4 is never reused)
    autoflush,   \* the Session's autoflush flag
    imp,         \* the import_family call in progress (or the last one)
    peer,        \* an import_family call of another Session, suspended
    del,         \* per Session, its delete_member call in progress
    graph,       \* the last GraphData returned by get_family_graph
    last         \* the last delete_member / delete_members /
                 \* import_family_from_preset call and its result

vars == <<db, nextId, autoflush, imp, peer, del, graph, last>>

(***************************************************************************)
(* The tables of models.py.                                                *)
(***************************************************************************)
EmptyDb ==
    [ families       |-> <<>>,   \* id -> [user_id]
      members        |-> <<>>,   \* id -> [family_id, position_x, position_y]
      regions        |-> <<>>,   \* id -> [family_id, linked_family_id]
      member_regions |-> {},     \* <<member_id, region_id>>
      spouses        |-> {},     \* [member1_id, member2_id, marriage_date]
      parent_child   |-> {},     \* [parent_id, child_id, relationship_type]
      positions      |-> {} ]    \* [member_id, family_id, x, y]

Min(a, b) == IF a < b THEN a ELSE b

Restrict(f, S) == [i \in S |-> f[i]]

MemberRow(f, x, y) == [family_id |-> f, position_x |-> x, position_y |-> y]

RegionRow(f, l) == [family_id |-> f, linked_family_id |-> l]

SpouseRow(a, b, d) == [member1_id |-> a, member2_id |-> b, marriage_date |-> d]

ParentChildRow(p, c, t) == [parent_id |-> p, child_id |-> c, relationship_type |-> t]

\* UniqueConstraint("member1_id", "member2_id", name="unique_spouses")
unique_spouses(rows) ==
    \A r1, r2 \in rows :
        (r1.member1_id = r2.member1_id /\ r1.member2_id = r2.member2_id) => r1 = r2

\* UniqueConstraint("parent_id", "child_id", "relationship_type")
unique_parent_child(rows) ==
    \A r1, r2 \in rows :
        (r1.parent_id = r2.parent_id /\ r1.child_id = r2.child_id
            /\ r1.relationship_type = r2.relationship_type) => r1 = r2

\* UniqueConstraint("member_id", "family_id")
unique_member_position_per_family(rows) ==
    \A r1, r2 \in rows :
        (r1.member_id = r2.member_id /\ r1.family_id = r2.family_id) => r1 = r2

\* Member.regions: the regions a member explicitly belongs to
RegionsOf(d, m) == {r \in DOMAIN d.regions : <<m, r>> \in d.member_regions}

\* the count query of delete_member / delete_members on member_regions
MemberCount(d, r) == Cardinality({mr \in d.member_regions : mr[2] = r})

\* db.delete(member) for a set of members, flushed: the rows removed with
\* them by the cascades of Member (relationships, positions) and by the
\* secondary table of Member.regions
DeleteMemberRows(d, ms) ==
    [d EXCEPT
        !.members = Restrict(@, DOMAIN @ \ ms),
        !.member_regions = {mr \in @ : mr[1] \notin ms},
        !.spouses = {s \in @ : s.member1_id \notin ms /\ s.member2_id \notin ms},
        !.parent_child = {p \in @ : p.parent_id \notin ms /\ p.child_id \notin ms},
        !.positions = {p \in @ : p.member_id \notin ms}]

\* db.delete(region) for a set of regions: the rows and their memberships
DeleteRegionRows(d, rs) ==
    [d EXCEPT
        !.regions = Restrict(@, DOMAIN @ \ rs),
        !.member_regions = {mr \in @ : mr[2] \notin rs}]

\* the loop with implicit members counted too: a region whose linked family
\* has stored members is kept
EmptyAffectedNoImplicit(d, affected) ==
    {r \in affected :
        /\ MemberCount(d, r) = 0
        /\ ~\E m \in DOMAIN d.members :
                d.members[m].family_id = d.regions[r].linked_family_id}

\* the loop without the count: every affected region is deleted
AllAffected(d, affected) == affected

\* the loop over affected_regions: delete each one whose count is 0
EmptyAffected(d, affected) == {r \in affected : MemberCount(d, r) = 0}

\* delete_member that looks for empty regions in the whole store
delete_member_sweep(d, m) ==
    IF m \notin DOMAIN d.members THEN d
    ELSE LET flushed == DeleteMemberRows(d, {m})
         IN  DeleteRegionRows(flushed, EmptyAffected(flushed, DOMAIN d.regions))

\* delete_member(db, member_id): the store it leaves
delete_member(d, m) ==
    IF m \notin DOMAIN d.members THEN d
    ELSE LET affected_regions == RegionsOf(d, m)
             flushed == DeleteMemberRows(d, {m})
         IN  DeleteRegionRows(flushed, EmptyAffected(flushed, affected_regions))

\* delete_members without the loop over affected_regions
delete_members_rows_only(d, ids) == DeleteMemberRows(d, ids \cap DOMAIN d.members)

\* delete_members(db, member_ids): the store it leaves
delete_members(d, ids) ==
    LET members == ids \cap DOMAIN d.members
    IN  IF members = {} THEN d
        ELSE LET affected_regions == UNION {RegionsOf(d, m) : m \in members}
                 flushed == DeleteMemberRows(d, members)
             IN  DeleteRegionRows(flushed, EmptyAffected(flushed, affected_regions))

\* whether the storage engine checks foreign keys at commit: an engine
\* setting made in database.py (SQLite checks them only when the connection
\* turns the check on; PostgreSQL and MySQL/InnoDB always do)
ForeignKeys == BOOLEAN

\* db.delete(db_family), flushed: the cascades of Family.members and
\* Family.regions (cascade="all, delete-orphan"), and those of each Member
FamilyCascade(d, f) ==
    LET ms == {m \in DOMAIN d.members : d.members[m].family_id = f}
        rs == {r \in DOMAIN d.regions : d.regions[r].family_id = f}
        cascaded == DeleteRegionRows(DeleteMemberRows(d, ms), rs)
    IN  [cascaded EXCEPT !.families = Restrict(@, DOMAIN @ \ {f})]

\* delete_family(db, family_id): the store it leaves.  MemberPosition rows
\* of members of other families that name the family are not reached by a
\* cascade: an engine that checks foreign keys refuses the commit.
delete_family(d, f, enforced) ==
    IF f \notin DOMAIN d.families THEN d
    ELSE LET flushed == FamilyCascade(d, f)
         IN  IF enforced /\ \E p \in flushed.positions : p.family_id = f
             THEN d
             ELSE flushed

\* update_member(db, member_id, member): the store it leaves; update_data is
\* member.model_dump(exclude_unset=True), a record of the fields that were set
update_member(d, m, update_data) ==
    IF m \notin DOMAIN d.members THEN d
    ELSE LET regions == IF "region_ids" \in DOMAIN update_data
                        THEN update_data.region_ids \cap DOMAIN d.regions
                        ELSE RegionsOf(d, m)
             x == IF "position_x" \in DOMAIN update_data
                  THEN update_data.position_x ELSE d.members[m].position_x
         IN  [d EXCEPT
                !.member_regions =
                    {mr \in @ : mr[1] # m} \cup {<<m, r>> : r \in regions},
                !.members[m].position_x = x]

(***************************************************************************)
(* get_family_graph.                                                       *)
(***************************************************************************)
RECURSIVE SetToSeq(_)
SetToSeq(S) ==
    IF S = {} THEN <<>>
    ELSE LET x == CHOOSE y \in S : TRUE IN <<x>> \o SetToSeq(S \ {x})

Range(s) == {s[i] : i \in DOMAIN s}

\* the member query: home family is F, or Member.regions.any(Region.family_id == F)
GraphMemberQuery(d, F) ==
    {m \in DOMAIN d.members :
        \/ d.members[m].family_id = F
        \/ \E r \in RegionsOf(d, m) : d.regions[r].family_id = F}

\* .limit(1000): without ORDER BY, any selection of that many rows
Limit(S, n) == {T \in SUBSET S : Cardinality(T) = Min(Cardinality(S), n)}

\* the regions of F that carry a linked_family_id
LinkedRegions(d, F) ==
    {r \in DOMAIN d.regions :
        d.regions[r].family_id = F /\ d.regions[r].linked_family_id # None}

\* linked_family_map = {lr.linked_family_id: lr.id for lr in linked_regions}:
\* one region per linked family, the last one of the (unordered) query result
LinkedFamilyMaps(d, F) ==
    LET lfs == {d.regions[r].linked_family_id : r \in LinkedRegions(d, F)}
    IN  {lfm \in [lfs -> DOMAIN d.regions] :
            \A f \in lfs : lfm[f] \in LinkedRegions(d, F)
                            /\ d.regions[lfm[f]].linked_family_id = f}

\* m.region_ids without the implicit linked region
NodeRegionIdsExplicit(d, lfm, m) == RegionsOf(d, m)

\* m.region_ids: explicit regions plus the implicit linked region
NodeRegionIds(d, lfm, m) ==
    RegionsOf(d, m) \cup
        (IF d.members[m].family_id # None /\ d.members[m].family_id \in DOMAIN lfm
         THEN {lfm[d.members[m].family_id]} ELSE {})

GraphNode(d, lfm, m) ==
    [ id         |-> m,
      x          |-> d.members[m].position_x,
      y          |-> d.members[m].position_y,
      family_id  |-> d.members[m].family_id,
      region_ids |-> NodeRegionIds(d, lfm, m) ]

SpouseEdge(s) ==
    [ id     |-> <<"spouse", s.member1_id, s.member2_id>>,
      source |-> s.member1_id,
      target |-> s.member2_id,
      type   |-> "spouse",
      label  |-> "",
      data   |-> s.marriage_date ]

ParentChildEdge(pc) ==
    [ id     |-> <<"parent-child", pc.parent_id, pc.child_id, pc.relationship_type>>,
      source |-> pc.parent_id,
      target |-> pc.child_id,
      type   |-> "parent-child",
      label  |-> pc.relationship_type,
      data   |-> None ]

\* the spouse query with `&` for `|`: both endpoints must be selected
SpouseEdgesBoth(d, member_ids) ==
    LET kept == SetToSeq({s \in d.spouses :
                       s.member1_id \in member_ids /\ s.member2_id \in member_ids})
    IN  [i \in DOMAIN kept |-> SpouseEdge(kept[i])]

\* the spouse query and the loop over its rows
SpouseEdges(d, member_ids) ==
    LET spouses == SetToSeq({s \in d.spouses :
                       s.member1_id \in member_ids \/ s.member2_id \in member_ids})
        kept == SelectSeq(spouses, LAMBDA s :
                       s.member1_id \in member_ids \/ s.member2_id \in member_ids)
    IN  [i \in DOMAIN kept |-> SpouseEdge(kept[i])]

\* the parent-child query and the loop over its rows
ParentChildEdges(d, member_ids) ==
    LET parent_child == SetToSeq({pc \in d.parent_child :
                       pc.parent_id \in member_ids \/ pc.child_id \in member_ids})
        kept == SelectSeq(parent_child, LAMBDA pc :
                       pc.parent_id \in member_ids \/ pc.child_id \in member_ids)
    IN  [i \in DOMAIN kept |-> ParentChildEdge(kept[i])]

\* the regions query restricted to the regions that have a member
GraphRegionsNonEmpty(d, F) ==
    {r \in DOMAIN d.regions : d.regions[r].family_id = F /\ MemberCount(d, r) > 0}

\* regions = db.query(Region).filter(Region.family_id == family_id).all()
GraphRegions(d, F) == {r \in DOMAIN d.regions : d.regions[r].family_id = F}

\* get_family_graph(db, family_id) for one outcome of the two unordered queries
get_family_graph(d, F, members, lfm) ==
    [ family_id |-> F,
      nodes     |-> [i \in DOMAIN SetToSeq(members) |->
                        GraphNode(d, lfm, SetToSeq(members)[i])],
      edges     |-> SpouseEdges(d, members) \o ParentChildEdges(d, members),
      regions   |-> GraphRegions(d, F) ]

NoGraph == [family_id |-> None]

NoCall == [op |-> "none"]

(***************************************************************************)
(* import_family: the local state of one call.                             *)
(***************************************************************************)
\* str.strip() on the region ids a document carries
Strip(rid) == IF rid = " a" THEN "a" ELSE rid

DocRegionIds == {"a", " a"}

ImpIdle ==
    [ pc                 |-> "idle",  \* idle, regions, members, spouses,
                                      \* parent_child, done, failed
      fam_ids            |-> <<>>,    \* m.family_id of each member record
      i                  |-> 0,       \* member records processed so far
      source_family_id   |-> None,
      family             |-> None,    \* db_family.id
      region_id_map      |-> <<>>,
      id_map             |-> <<>>,
      resolved_ids_cache |-> {},
      view               |-> EmptyDb, \* the store as the transaction sees it
      pending_spouses    |-> <<>>,    \* db.add()ed rows not flushed yet
      pending_parent_child |-> <<>>,
      pre                |-> EmptyDb, \* the store when the call started
      base               |-> 0,       \* the first member id the call can create
      regions            |-> <<>>,    \* the records processed, with what
      members            |-> <<>>,    \*   the call did with each of them
      spouses            |-> <<>>,
      parent_child       |-> <<>> ]

\* Counter(family_ids).most_common(1)[0][0]: the value with the highest
\* count; among equal counts the one met first
Count(seq, v) == Cardinality({k \in DOMAIN seq : seq[k] = v})

FirstIndex(seq, v) == CHOOSE k \in DOMAIN seq : seq[k] = v /\ \A j \in 1..(k-1) : seq[j] # v

\* most_common(1) taken for the first element of the list
FirstDeclared(family_ids) == family_ids[1]

MostCommon(family_ids) ==
    CHOOSE v \in Range(family_ids) :
        \A w \in Range(family_ids) \ {v} :
            \/ Count(family_ids, v) > Count(family_ids, w)
            \/ /\ Count(family_ids, v) = Count(family_ids, w)
               /\ FirstIndex(family_ids, v) < FirstIndex(family_ids, w)

SourceFamilyId(fam_ids) ==
    LET family_ids == SelectSeq(fam_ids, LAMBDA f : f # None)
    IN  IF family_ids = <<>> THEN None ELSE MostCommon(family_ids)

\* resolve_id without the query: an id that is not in the id map resolves
\* to itself
resolve_id_unchecked(st, original_id) ==
    IF original_id = None THEN None
    ELSE IF original_id \in DOMAIN st.id_map THEN st.id_map[original_id]
    ELSE original_id

\* resolve_id with the store asked before the id map
resolve_id_store_first(st, original_id) ==
    IF original_id = None THEN None
    ELSE IF original_id \in DOMAIN st.view.members THEN original_id
    ELSE IF original_id \in DOMAIN st.id_map THEN st.id_map[original_id]
    ELSE None

\* resolve_id(original_id): the id map, then the cache, then the store
resolve_id(st, original_id) ==
    IF original_id = None THEN None
    ELSE IF original_id \in DOMAIN st.id_map THEN st.id_map[original_id]
    ELSE IF original_id \in st.resolved_ids_cache THEN original_id
    ELSE IF original_id \in DOMAIN st.view.members THEN original_id
    ELSE None

\* the entry resolve_id leaves in resolved_ids_cache
resolve_cache(st, original_id) ==
    IF /\ original_id # None
       /\ original_id \notin DOMAIN st.id_map
       /\ original_id \notin st.resolved_ids_cache
       /\ original_id \in DOMAIN st.view.members
    THEN st.resolved_ids_cache \cup {original_id}
    ELSE st.resolved_ids_cache

\* should_link without the test that the record declares a family id
should_link_differs(family_id, source_family_id) ==
    source_family_id # None /\ family_id # source_family_id

\* should_link without the comparison with the source family
should_link_declared(family_id, source_family_id) ==
    family_id # None /\ source_family_id # None

\* should_link of a member record
should_link(family_id, source_family_id) ==
    family_id # None /\ source_family_id # None /\ family_id # source_family_id

\* new_region_ids without the lookup of the record's region ids: every
\* region of the document
NewRegionIdsAll(region_id_map, m_rids) ==
    {region_id_map[k] : k \in DOMAIN region_id_map}

\* new_region_ids of a member record
NewRegionIds(region_id_map, m_rids) ==
    {region_id_map[Strip(rid)] :
        rid \in {x \in m_rids : Strip(x) # "" /\ Strip(x) \in DOMAIN region_id_map}}

Importing == imp.pc \in {"regions", "members", "spouses", "parent_child"}

(***************************************************************************)
(* delete_member, statement by statement, for requests served at the same  *)
(* time: each request has its own Session and transaction.                 *)
(***************************************************************************)
Sessions == {1, 2}

DelIdle ==
    [ pc               |-> "idle",  \* idle, flushed, counted, done
      member           |-> None,    \* db_member.id
      affected_regions |-> {},      \* list(db_member.regions)
      empty            |-> {} ]     \* the regions whose count was 0

(***************************************************************************)
(* The initial state: an empty store and a fresh Session.                  *)
(***************************************************************************)
Init ==
    /\ db = EmptyDb
    /\ nextId = [family |-> 1, member |-> 1, region |-> 1]
    /\ autoflush \in BOOLEAN
    /\ imp = ImpIdle
    /\ peer = ImpIdle
    /\ del = [s \in Sessions |-> DelIdle]
    /\ graph = NoGraph
    /\ last = NoCall

\* a handler other than import_family and get_family_graph has run
Other == /\ imp' = ImpIdle
         /\ graph' = NoGraph
         /\ last' = NoCall
         /\ UNCHANGED <<autoflush, peer, del>>

(***************************************************************************)
(* The plain handlers.                                                     *)
(***************************************************************************)
\* create_family
CreateFamily(user_id) ==
    /\ ~Importing
    /\ nextId.family <= MaxFamilies
    /\ db' = [db EXCEPT !.families = @ @@ (nextId.family :> [user_id |-> user_id])]
    /\ nextId' = [nextId EXCEPT !.family = @ + 1]
    /\ Other

\* routers/regions.py create_region
CreateRegion(family_id) ==
    /\ ~Importing
    /\ nextId.region <= MaxRegions
    /\ family_id \in DOMAIN db.families
    /\ db' = [db EXCEPT !.regions = @ @@ (nextId.region :> RegionRow(family_id, None))]
    /\ nextId' = [nextId EXCEPT !.region = @ + 1]
    /\ Other

\* create_member
CreateMember(family_id, region_ids, x, y) ==
    /\ ~Importing
    /\ nextId.member <= MaxMembers
    /\ family_id \in DOMAIN db.families
    /\ LET regions == region_ids \cap DOMAIN db.regions
       IN  db' = [db EXCEPT
                    !.members = @ @@ (nextId.member :> MemberRow(family_id, x, y)),
                    !.member_regions = @ \cup {<<nextId.member, r>> : r \in regions}]
    /\ nextId' = [nextId EXCEPT !.member = @ + 1]
    /\ Other

\* create_member with a family_id that names no stored Family: neither the
\* router nor crud.py looks the family up, the INSERT is left to the engine
CreateMemberUnknownFamily(family_id, x, y) ==
    /\ ~Importing
    /\ nextId.member <= MaxMembers
    /\ family_id \notin DOMAIN db.families
    /\ \E enforced \in ForeignKeys :
        IF enforced
        THEN UNCHANGED <<db, nextId>>
        ELSE /\ db' = [db EXCEPT !.members =
                            @ @@ (nextId.member :> MemberRow(family_id, x, y))]
             /\ nextId' = [nextId EXCEPT !.member = @ + 1]
    /\ Other

\* delete_family
DeleteFamily(family_id) ==
    /\ ~Importing
    /\ \E enforced \in ForeignKeys : db' = delete_family(db, family_id, enforced)
    /\ UNCHANGED nextId
    /\ Other

\* delete_region
DeleteRegion(region_id) ==
    /\ ~Importing
    /\ db' = IF region_id \in DOMAIN db.regions
             THEN DeleteRegionRows(db, {region_id}) ELSE db
    /\ UNCHANGED nextId
    /\ Other

\* delete_spouse_relationship
DeleteSpouse(a, b) ==
    /\ ~Importing
    /\ db' = [db EXCEPT !.spouses =
                {s \in @ : ~(s.member1_id = a /\ s.member2_id = b)}]
    /\ UNCHANGED nextId
    /\ Other

\* delete_parent_child_relationship
DeleteParentChild(p, c, t) ==
    /\ ~Importing
    /\ db' = [db EXCEPT !.parent_child = @ \ {ParentChildRow(p, c, t)}]
    /\ UNCHANGED nextId
    /\ Other

\* create_spouse_relationship (behind the router's member check)
CreateSpouse(a, b, date) ==
    /\ ~Importing
    /\ a \in DOMAIN db.members /\ b \in DOMAIN db.members
    /\ Cardinality(db.spouses) < MaxRels
    /\ unique_spouses(db.spouses \cup {SpouseRow(a, b, date)})
    /\ SpouseRow(a, b, date) \notin db.spouses
    /\ db' = [db EXCEPT !.spouses = @ \cup {SpouseRow(a, b, date)}]
    /\ UNCHANGED nextId
    /\ Other

\* create_parent_child_relationship (behind the router's member check)
CreateParentChild(p, c, t) ==
    /\ ~Importing
    /\ p \in DOMAIN db.members /\ c \in DOMAIN db.members
    /\ Cardinality(db.parent_child) < MaxRels
    /\ ParentChildRow(p, c, t) \notin db.parent_child
    /\ db' = [db EXCEPT !.parent_child = @ \cup {ParentChildRow(p, c, t)}]
    /\ UNCHANGED nextId
    /\ Other

\* update_members_positions: upsert of the MemberPosition row of (m, f)
UpdateMembersPositions(family_id, m, x, y) ==
    /\ ~Importing
    /\ family_id \in DOMAIN db.families
    /\ m \in DOMAIN db.members
    /\ LET row == [member_id |-> m, family_id |-> family_id, x |-> x, y |-> y]
       IN  /\ row \notin db.positions
           /\ db' = [db EXCEPT !.positions =
                        {p \in @ : ~(p.member_id = m /\ p.family_id = family_id)}
                            \cup {row}]
    /\ UNCHANGED nextId
    /\ Other

\* update_member
UpdateMember(m, update_data) ==
    /\ ~Importing
    /\ db' = update_member(db, m, update_data)
    /\ last' = [op |-> "update_member", ids |-> {m}, pre |-> db,
                result |-> IF m \in DOMAIN db.members THEN {m} ELSE {}]
    /\ imp' = ImpIdle
    /\ graph' = NoGraph
    /\ UNCHANGED <<nextId, autoflush, peer, del>>

\* delete_member
DeleteMember(m) ==
    /\ ~Importing
    /\ db' = delete_member(db, m)
    /\ last' = [op |-> "delete_member", ids |-> {m}, pre |-> db,
                result |-> IF m \in DOMAIN db.members THEN {m} ELSE {}]
    /\ imp' = ImpIdle
    /\ graph' = NoGraph
    /\ UNCHANGED <<nextId, autoflush, peer, del>>

\* the rows a query of a delete_member transaction sees after its flush:
\* the rows committed so far (its own Session's and, under READ COMMITTED,
\* those other Sessions committed meanwhile) without the member it deleted
SeenAfterDelete(committed, m) == DeleteMemberRows(committed, {m})

\* delete_member up to db.flush(): the member is read with its regions and
\* deleted in the Session's transaction
DeleteMemberFlush(s, m) ==
    /\ ~Importing
    /\ del[s].pc = "idle"
    /\ m \in DOMAIN db.members
    /\ \A t \in Sessions : del[t].member # m
    /\ del' = [del EXCEPT ![s] = [pc |-> "flushed", member |-> m,
                                  affected_regions |-> RegionsOf(db, m),
                                  empty |-> {}]]
    /\ UNCHANGED <<db, nextId, autoflush, imp, peer, graph, last>>

\* the loop over affected_regions: each count query sees the committed rows
\* and the Session's own deletion
DeleteMemberCount(s) ==
    /\ del[s].pc = "flushed"
    /\ LET flushed == SeenAfterDelete(db, del[s].member)
           affected == del[s].affected_regions \cap DOMAIN db.regions
       IN  del' = [del EXCEPT ![s].pc = "counted",
                              ![s].empty = EmptyAffected(flushed, affected)]
    /\ UNCHANGED <<db, nextId, autoflush, imp, peer, graph, last>>

\* db.commit(): the deletion of the member and of the regions found empty
DeleteMemberCommit(s) ==
    /\ del[s].pc = "counted"
    /\ db' = DeleteRegionRows(DeleteMemberRows(db, {del[s].member}), del[s].empty)
    /\ del' = [del EXCEPT ![s].pc = "done"]
    /\ graph' = NoGraph
    /\ UNCHANGED <<nextId, autoflush, imp, peer, last>>

\* delete_members
DeleteMembers(ids) ==
    /\ ~Importing
    /\ db' = delete_members(db, ids)
    /\ last' = [op |-> "delete_members", ids |-> ids, pre |-> db,
                result |-> ids \cap DOMAIN db.members]
    /\ imp' = ImpIdle
    /\ graph' = NoGraph
    /\ UNCHANGED <<nextId, autoflush, peer, del>>

\* get_family_graph
GetFamilyGraph(family_id) ==
    /\ ~Importing
    /\ family_id \in DOMAIN db.families
    /\ \E members \in Limit(GraphMemberQuery(db, family_id), GraphLimit) :
       \E lfm \in LinkedFamilyMaps(db, family_id) :
           /\ graph' = get_family_graph(db, family_id, members, lfm)
           /\ graph' # graph
    /\ last' = NoCall
    /\ UNCHANGED <<db, nextId, autoflush, imp, peer, del>>

(***************************************************************************)
(* import_family, one step per record of the document.  Everything from    *)
(* the Family row to the last relationship is written inside               *)
(* `with db.begin()`: the writes go to imp.view and reach db at the commit *)
(* that ends the block.                                                    *)
(***************************************************************************)
\* db.commit() where the code has db.flush()
FlushCommits(committed, view) == view

\* db.flush(): the rows reach the transaction, the committed store stays
Flush(committed, view) == committed

\* whether a query first flushes the rows that were only db.add()ed: the
\* Session's autoflush setting, made in database.py
QueryAutoflushes == autoflush

\* the rows a query of the transaction sees: what was flushed, and with
\* autoflush also what was only added
VisibleSpouses(st) ==
    st.view.spouses \cup (IF QueryAutoflushes THEN Range(st.pending_spouses) ELSE {})

VisibleParentChild(st) ==
    st.view.parent_child \cup
        (IF QueryAutoflushes THEN Range(st.pending_parent_child) ELSE {})

\* the store a transaction sees and writes to: the rows committed so far
\* (its own Session's and, under READ COMMITTED, those other Sessions
\* committed meanwhile) and the rows it has flushed itself
Seen(committed, st) ==
    LET own(t) == Restrict(st.view[t], DOMAIN st.view[t] \ DOMAIN st.pre[t])
    IN  [ families       |-> own("families") @@ committed.families,
          members        |-> own("members") @@ committed.members,
          regions        |-> own("regions") @@ committed.regions,
          member_regions |-> committed.member_regions
                                \cup (st.view.member_regions \ st.pre.member_regions),
          spouses        |-> committed.spouses \cup (st.view.spouses \ st.pre.spouses),
          parent_child   |-> committed.parent_child
                                \cup (st.view.parent_child \ st.pre.parent_child),
          positions      |-> committed.positions
                                \cup (st.view.positions \ st.pre.positions) ]

\* steps 0 and 1: source family detection, the Family row, flush; `call` is
\* the caller's record of the call
ImportCall(fam_ids, user_id, call) ==
    /\ ~Importing
    /\ nextId.family <= MaxFamilies
    /\ Cardinality({k \in DOMAIN fam_ids :
                        ~should_link(fam_ids[k], SourceFamilyId(fam_ids))})
            <= MaxMembers + 1 - nextId.member
    /\ LET view == [db EXCEPT !.families =
                        @ @@ (nextId.family :> [user_id |-> user_id])]
       IN  /\ imp' = [ImpIdle EXCEPT
                        !.pc = "regions",
                        !.fam_ids = fam_ids,
                        !.source_family_id = SourceFamilyId(fam_ids),
                        !.family = nextId.family,
                        !.view = view,
                        !.pre = db,
                        !.base = nextId.member]
           /\ db' = Flush(db, view)
    /\ nextId' = [nextId EXCEPT !.family = @ + 1]
    /\ graph' = NoGraph
    /\ last' = call
    /\ UNCHANGED <<autoflush, peer, del>>

\* import_family called by the router
ImportBegin(fam_ids, user_id) == ImportCall(fam_ids, user_id, NoCall)

\* step 2, one region record r = [original_id, linked_family_id]
ImportRegion(r) ==
    /\ imp.pc = "regions"
    /\ nextId.region <= MaxRegions
    /\ LET id == nextId.region
           view == [imp.view EXCEPT !.regions =
                        @ @@ (id :> RegionRow(imp.family, r.linked_family_id))]
       IN  /\ imp' = [imp EXCEPT
                        !.view = view,
                        !.region_id_map =
                            IF r.original_id # ""
                            THEN (Strip(r.original_id) :> id) @@ @
                            ELSE @,
                        !.regions = Append(@, [original_id |-> r.original_id,
                                               linked_family_id |-> r.linked_family_id,
                                               id |-> id])]
           /\ db' = Flush(db, view)
    /\ nextId' = [nextId EXCEPT !.region = @ + 1]
    /\ UNCHANGED <<autoflush, peer, del, graph, last>>

\* regions_to_add without any filter: every stored region
regions_to_add_every(st, db_member, new_region_ids) == DOMAIN st.view.regions

\* regions_to_add without the auto-link to linked-family regions
regions_from_ids(st, db_member, new_region_ids) ==
    new_region_ids \cap DOMAIN st.view.regions

\* `if not existing_member_id: continue` left out: the record falls through
never_skipped(link, existing_member_id) == FALSE

\* a link candidate that is not found is skipped
skipped(link, existing_member_id) == link /\ existing_member_id = None

\* the regions a linked member is added to: those of its region ids and the
\* new regions whose linked_family_id is its home family
regions_to_add(st, db_member, new_region_ids) ==
    (new_region_ids \cap DOMAIN st.view.regions)
    \cup (IF st.view.members[db_member].family_id # None
          THEN {lr \in DOMAIN st.view.regions :
                    /\ st.view.regions[lr].family_id = st.family
                    /\ st.view.regions[lr].linked_family_id
                            = st.view.members[db_member].family_id}
          ELSE {})

\* db_member.regions = regions, as the clone branch has it: the member's
\* regions are replaced
link_member_replace(view, db_member, regions) ==
    [view EXCEPT !.member_regions =
        {mr \in @ : mr[1] # db_member} \cup {<<db_member, r>> : r \in regions}]

\* db_member.regions.append(reg) for each region the member is not in yet
link_member(view, db_member, regions) ==
    [view EXCEPT !.member_regions = @ \cup {<<db_member, r>> : r \in regions}]

\* step 3, one member record m = [original_id, region_ids, position_x, position_y];
\* its family_id is imp.fam_ids[imp.i + 1]
ImportMember(m) ==
    /\ imp.pc \in {"regions", "members"}
    /\ imp.i < Len(imp.fam_ids)
    /\ LET family_id == imp.fam_ids[imp.i + 1]
           new_region_ids == NewRegionIds(imp.region_id_map, m.region_ids)
           link == should_link(family_id, imp.source_family_id)
           existing_member_id == IF link THEN resolve_id(imp, m.original_id) ELSE None
           cache == IF link THEN resolve_cache(imp, m.original_id)
                    ELSE imp.resolved_ids_cache
           entry(outcome, id) == [original_id |-> m.original_id,
                                  family_id |-> family_id,
                                  region_ids |-> m.region_ids,
                                  outcome |-> outcome, id |-> id]
       IN  IF skipped(link, existing_member_id)
           THEN \* not found in the store: skipped
                /\ imp' = [imp EXCEPT !.pc = "members", !.i = @ + 1,
                                      !.resolved_ids_cache = cache,
                                      !.members = Append(@, entry("skip", None))]
                /\ UNCHANGED <<db, nextId>>
           ELSE IF existing_member_id # None
           THEN \* linked: regions are added to the stored member
                /\ imp' = [imp EXCEPT
                            !.pc = "members", !.i = @ + 1,
                            !.resolved_ids_cache = cache,
                            !.view = link_member(@, existing_member_id,
                                        regions_to_add(imp, existing_member_id,
                                                       new_region_ids)),
                            !.id_map = (m.original_id :> existing_member_id) @@ @,
                            !.members = Append(@, entry("link", existing_member_id))]
                /\ UNCHANGED <<db, nextId>>
           ELSE \* cloned: a new Member row of the new family, flushed
                /\ nextId.member <= MaxMembers
                /\ LET id == nextId.member
                       view == [imp.view EXCEPT
                                 !.members = @ @@ (id :> MemberRow(imp.family,
                                                m.position_x, m.position_y)),
                                 !.member_regions = @ \cup
                                    {<<id, r>> : r \in new_region_ids
                                                    \cap DOMAIN imp.view.regions}]
                   IN  /\ imp' = [imp EXCEPT
                                    !.pc = "members", !.i = @ + 1,
                                    !.view = view,
                                    !.id_map = (m.original_id :> id) @@ @,
                                    !.members = Append(@, entry("clone", id))]
                       /\ db' = Flush(db, view)
                /\ nextId' = [nextId EXCEPT !.member = @ + 1]
    /\ UNCHANGED <<autoflush, peer, del, graph, last>>

\* step 4, one spouse record s = [member1_original_id, member2_original_id,
\* marriage_date]
ImportSpouse(s) ==
    /\ imp.pc \in {"regions", "members", "spouses"}
    /\ imp.i = Len(imp.fam_ids)
    /\ Len(imp.spouses) < MaxDocRels
    /\ LET a == resolve_id(imp, s.member1_original_id)
           st1 == [imp EXCEPT !.resolved_ids_cache =
                        resolve_cache(imp, s.member1_original_id)]
           b == resolve_id(st1, s.member2_original_id)
           cache == resolve_cache(st1, s.member2_original_id)
           exists_rel == \E r \in VisibleSpouses(imp) :
                            r.member1_id = a /\ r.member2_id = b
           exists_reverse == \E r \in VisibleSpouses(imp) :
                            r.member1_id = b /\ r.member2_id = a
           add == a # None /\ b # None /\ ~exists_rel /\ ~exists_reverse
       IN  imp' = [imp EXCEPT
                    !.pc = "spouses",
                    !.resolved_ids_cache = cache,
                    !.pending_spouses =
                        IF add THEN Append(@, SpouseRow(a, b, s.marriage_date))
                        ELSE @,
                    !.spouses = Append(@, [member1_original_id |-> s.member1_original_id,
                                           member2_original_id |-> s.member2_original_id,
                                           a |-> a, b |-> b, added |-> add])]
    /\ UNCHANGED <<db, nextId, autoflush, peer, del, graph, last>>

\* step 5, one parent-child record pc = [parent_original_id,
\* child_original_id, relationship_type]
ImportParentChild(pc) ==
    /\ imp.pc \in {"regions", "members", "spouses", "parent_child"}
    /\ imp.i = Len(imp.fam_ids)
    /\ Len(imp.parent_child) < MaxDocRels
    /\ LET p == resolve_id(imp, pc.parent_original_id)
           st1 == [imp EXCEPT !.resolved_ids_cache =
                        resolve_cache(imp, pc.parent_original_id)]
           c == resolve_id(st1, pc.child_original_id)
           cache == resolve_cache(st1, pc.child_original_id)
           exists_pc == \E r \in VisibleParentChild(imp) :
                            /\ r.parent_id = p /\ r.child_id = c
                            /\ r.relationship_type = pc.relationship_type
           add == p # None /\ c # None /\ ~exists_pc
       IN  imp' = [imp EXCEPT
                    !.pc = "parent_child",
                    !.resolved_ids_cache = cache,
                    !.pending_parent_child =
                        IF add THEN Append(@, ParentChildRow(p, c, pc.relationship_type))
                        ELSE @,
                    !.parent_child = Append(@, [parent_original_id |-> pc.parent_original_id,
                                                child_original_id |-> pc.child_original_id,
                                                relationship_type |-> pc.relationship_type,
                                                p |-> p, c |-> c, added |-> add])]
    /\ UNCHANGED <<db, nextId, autoflush, peer, del, graph, last>>

\* no two of the rows to insert, and none of them and a stored row, collide
\* on a unique constraint
SpouseKey(r) == <<r.member1_id, r.member2_id>>

ParentChildKey(r) == <<r.parent_id, r.child_id, r.relationship_type>>

NoDuplicate(pending, stored) ==
    /\ \A j, k \in DOMAIN pending : j # k => pending[j] # pending[k]
    /\ \A j \in DOMAIN pending : pending[j] \notin stored

\* the final db.flush(): IntegrityError when a unique constraint is violated
FlushSucceeds(st) ==
    /\ NoDuplicate([j \in DOMAIN st.pending_spouses |-> SpouseKey(st.pending_spouses[j])],
                   {SpouseKey(r) : r \in Seen(db, st).spouses})
    /\ NoDuplicate([j \in DOMAIN st.pending_parent_child |-> ParentChildKey(st.pending_parent_child[j])],
                   {ParentChildKey(r) : r \in Seen(db, st).parent_child})

\* step 6 and the end of `with db.begin()`: flush, then commit; an
\* IntegrityError rolls the transaction back and is re-raised
ImportCommit ==
    /\ Importing
    /\ imp.i = Len(imp.fam_ids)
    /\ IF FlushSucceeds(imp)
       THEN LET view == [Seen(db, imp) EXCEPT
                            !.spouses = @ \cup Range(imp.pending_spouses),
                            !.parent_child = @ \cup Range(imp.pending_parent_child)]
            IN  /\ db' = view
                /\ imp' = [imp EXCEPT !.pc = "done", !.view = view,
                                      !.pending_spouses = <<>>,
                                      !.pending_parent_child = <<>>]
       ELSE /\ imp' = [imp EXCEPT !.pc = "failed", !.view = imp.pre,
                                  !.pending_spouses = <<>>,
                                  !.pending_parent_child = <<>>]
            /\ UNCHANGED db
    /\ UNCHANGED <<nextId, autoflush, peer, del, graph, last>>

\* a storage error (SQLAlchemyError) at any statement of the block: the
\* context manager rolls back and the error is re-raised
ImportFail ==
    /\ Importing
    /\ imp' = [imp EXCEPT !.pc = "failed", !.view = imp.pre,
                          !.pending_spouses = <<>>,
                          !.pending_parent_child = <<>>]
    /\ UNCHANGED <<db, nextId, autoflush, peer, del, graph, last>>

\* two requests are served by two threads, each with its own Session: the
\* running import_family call is suspended and the other call goes on; its
\* next statement sees what was committed meanwhile
Switch ==
    /\ imp' = IF peer.pc \in {"regions", "members", "spouses", "parent_child"}
              THEN [peer EXCEPT !.view = Seen(db, peer)]
              ELSE peer
    /\ peer' = imp
    /\ UNCHANGED <<db, nextId, autoflush, del, graph, last>>

(***************************************************************************)
(* The documents and arguments the handlers are called with.               *)
(***************************************************************************)
FamilyIds == 1..MaxFamilies
MemberIds == 1..MaxMembers
RegionIds == 1..MaxRegions

\* source-family ids a member record can declare
DocFamilyIds == {None, ExtFamilyId} \cup {f \in FamilyIds : f < nextId.family}

FamIdSeqs == UNION {[1..n -> DocFamilyIds] : n \in 0..MaxDocMembers}

\* original ids a document written before the call can carry
DocMemberIds == {ExtMemberId} \cup {m \in MemberIds : m < imp.base}

RegionRecords ==
    [original_id : {"", " a"},
     linked_family_id : {None} \cup {f \in FamilyIds : f < imp.family}]

MemberRecords ==
    [original_id : DocMemberIds, region_ids : {{}, {"a"}}, position_x : {0},
     position_y : {0}]

SpouseRecords ==
    [member1_original_id : DocMemberIds, member2_original_id : DocMemberIds,
     marriage_date : {None}]

ParentChildRecords ==
    [parent_original_id : DocMemberIds, child_original_id : DocMemberIds,
     relationship_type : RelTypes]

\* import_family on the documents made of the given records
Import(SR, PR) ==
    \/ \E fam_ids \in FamIdSeqs : \E u \in Users : ImportBegin(fam_ids, u)
    \/ \E r \in RegionRecords : ImportRegion(r)
    \/ \E m \in MemberRecords : ImportMember(m)
    \/ \E s \in SR : ImportSpouse(s)
    \/ \E pc \in PR : ImportParentChild(pc)
    \/ ImportCommit
    \/ ImportFail

(***************************************************************************)
(* One import into a store that holds families and members: a document     *)
(* with at most one region record and one relationship record is imported  *)
(* and the graph of the new family is read.                                *)
(***************************************************************************)
MaxStored == 2

Setup ==
    /\ imp.pc = "idle"
    /\ \/ \E u \in Users : CreateFamily(u)
       \/ \E f \in FamilyIds : nextId.member <= MaxStored /\ CreateMember(f, {}, 0, 0)

OneRel == Len(imp.spouses) + Len(imp.parent_child) = 0

Next ==
    \/ Setup
    \/ /\ imp.pc \in {"idle", "regions", "members", "spouses", "parent_child"}
       /\ Import({s \in SpouseRecords : OneRel},
                 {pc \in ParentChildRecords : OneRel /\ pc.relationship_type = "father"})
       /\ Len(imp'.regions) <= MaxDocRegions
    \/ imp.pc = "done" /\ GetFamilyGraph(imp.family)

Spec == Init /\ [][Next]_vars

\* the Member rows a call has created so far
NewMembers == DOMAIN imp.view.members \ DOMAIN imp.pre.members

MembersDone == imp.pc # "idle" /\ imp.i = Len(imp.fam_ids)

\* C1: when import_family fails after the Family row (and regions, members)
\* was flushed, the store equals the store before the call: no row written
\* by the call is left.
C1_RollbackOnFailure ==
    imp.pc = "failed" =>
        /\ db = imp.pre
        /\ imp.family \notin DOMAIN db.families

C1_Witness ==
    /\ imp.pc = "failed"
    /\ imp.regions # <<>>
    /\ \E k \in DOMAIN imp.members : imp.members[k].outcome = "clone"
    /\ imp.spouses # <<>>

\* the member records all declare the same source-family id
SameSourceFamily ==
    /\ imp.fam_ids # <<>>
    /\ \A k \in DOMAIN imp.fam_ids : imp.fam_ids[k] = imp.fam_ids[1] /\ imp.fam_ids[k] # None

\* C2: when all member records declare the same source-family id, a
\* committed import has created exactly one new Member row per record, each
\* with the new Family as home family, has linked no stored member and has
\* added no region membership to a member stored before.
C2_AllCloned ==
    (imp.pc = "done" /\ SameSourceFamily) =>
        /\ Cardinality(DOMAIN db.members \ DOMAIN imp.pre.members) = Len(imp.fam_ids)
        /\ \A m \in DOMAIN db.members \ DOMAIN imp.pre.members :
                db.members[m].family_id = imp.family
        /\ \A o \in DOMAIN imp.id_map : imp.id_map[o] \notin DOMAIN imp.pre.members
        /\ \A m \in DOMAIN imp.pre.members :
                /\ m \in DOMAIN db.members
                /\ db.members[m] = imp.pre.members[m]
                /\ RegionsOf(db, m) = RegionsOf(imp.pre, m)

C2_Witness ==
    /\ imp.pc = "done"
    /\ SameSourceFamily
    /\ Len(imp.fam_ids) = 2
    /\ imp.regions # <<>>
    /\ \E k \in DOMAIN imp.members : imp.members[k].original_id \in DOMAIN imp.pre.members

\* the member records that declare a source-family id other than the
\* detected one, and those of them whose original id is no stored member
LinkCandidate(k) ==
    /\ imp.members[k].family_id # None
    /\ imp.members[k].family_id # imp.source_family_id

Unresolvable(k) ==
    /\ LinkCandidate(k)
    /\ imp.members[k].original_id \notin DOMAIN imp.pre.members

\* the original ids of the member records that are no link candidates (the
\* records the call clones)
ClonedOriginalIds ==
    {imp.members[k].original_id :
        k \in {j \in DOMAIN imp.members : ~LinkCandidate(j)}}

\* what C3 says of a set K of member records: they are skipped, no row is
\* made for them, they get no id-map entry, and no relationship comes
\* from a record all of whose endpoints are among them
SkippedEntirely(K) ==
    LET ids == {imp.members[k].original_id : k \in K}
    IN  /\ \A k \in K : imp.members[k].outcome = "skip"
        /\ Cardinality(NewMembers) <= Len(imp.members) - Cardinality(K)
        /\ \A o \in ids : o \notin DOMAIN imp.id_map
        /\ \A j \in DOMAIN imp.spouses :
                ({imp.spouses[j].member1_original_id,
                  imp.spouses[j].member2_original_id} \subseteq ids)
                    => ~imp.spouses[j].added
        /\ \A j \in DOMAIN imp.parent_child :
                ({imp.parent_child[j].parent_original_id,
                  imp.parent_child[j].child_original_id} \subseteq ids)
                    => ~imp.parent_child[j].added

\* C3 as stated: every link candidate whose original id is no stored member
\* is skipped.
C3_Original ==
    MembersDone => SkippedEntirely({k \in DOMAIN imp.members : Unresolvable(k)})

\* C3 as amended: every link candidate whose original id is neither a stored
\* member nor the original id of a record of the same document that is
\* cloned (one that is no link candidate) is skipped: no Member row, no id-map entry, and no relationship from a
\* record all of whose endpoints are such members.
C3_UnresolvedSkipped ==
    MembersDone =>
        SkippedEntirely({k \in DOMAIN imp.members :
            Unresolvable(k) /\ imp.members[k].original_id \notin ClonedOriginalIds})

C3_Witness ==
    /\ imp.pc = "done"
    /\ \E k \in DOMAIN imp.members :
        /\ Unresolvable(k)
        /\ imp.members[k].original_id \notin ClonedOriginalIds
        /\ \E j \in DOMAIN imp.spouses :
                /\ imp.spouses[j].member1_original_id = imp.members[k].original_id
                /\ imp.spouses[j].member2_original_id = imp.members[k].original_id
    /\ \E k \in DOMAIN imp.members : imp.members[k].outcome = "clone"

\* the member records that link a stored member, carry no region id, and
\* whose member's home family is the linked family of a region of the document
AutoLinked(k, r) ==
    /\ imp.members[k].outcome = "link"
    /\ imp.members[k].id \in DOMAIN imp.pre.members
    /\ imp.members[k].region_ids = {}
    /\ imp.regions[r].linked_family_id = imp.pre.members[imp.members[k].id].family_id

C16_LinkCandidateIff ==
    \A k \in DOMAIN imp.members :
        /\ imp.members[k].outcome \in {"skip", "link"} <=> LinkCandidate(k)
        /\ ~LinkCandidate(k) =>
                /\ imp.members[k].outcome = "clone"
                /\ imp.members[k].id \notin DOMAIN imp.pre.members
                /\ imp.pc # "failed" =>
                        /\ imp.members[k].id \in DOMAIN imp.view.members
                        /\ imp.view.members[imp.members[k].id].family_id = imp.family

C16_Witness ==
    /\ imp.pc = "done"
    /\ \E k \in DOMAIN imp.members :
            /\ ~LinkCandidate(k)
            /\ imp.members[k].original_id \in DOMAIN imp.pre.members
            /\ imp.members[k].id \in DOMAIN db.members
    /\ \E k \in DOMAIN imp.members : imp.members[k].outcome = "link"

(***************************************************************************)
(* Linking stored members: one family with a region and a member, then a   *)
(* document of up to MaxSourceIds member records, one region record and    *)
(* one spouse record.                                                      *)
(***************************************************************************)
LinkFamIdSeqs == UNION {[1..n -> {None, ExtFamilyId, 1}] : n \in 0..MaxSourceIds}

NextLink ==
    \/ nextId.family = 1 /\ \E u \in Users : CreateFamily(u)
    \/ nextId.region = 1 /\ CreateRegion(1)
    \/ nextId.member = 1 /\ \E rs \in SUBSET RegionIds : CreateMember(1, rs, 0, 0)
    \/ imp.pc = "idle" /\ \E fam_ids \in LinkFamIdSeqs : \E u \in Users :
            ImportBegin(fam_ids, u)
    \/ Len(imp.regions) < MaxDocRegions /\ \E r \in RegionRecords : ImportRegion(r)
    \/ \E m \in MemberRecords : ImportMember(m)
    \/ imp.spouses = <<>> /\ \E s \in SpouseRecords : ImportSpouse(s)
    \/ ImportCommit

SpecLink == Init /\ [][NextLink]_vars

\* member record k linked the stored member imp.members[k].id
Linked(k) ==
    /\ imp.members[k].outcome = "link"
    /\ imp.members[k].id \in DOMAIN imp.pre.members

\* a later member record with the original id of record k is cloned
ClonedLater(k) ==
    \E j \in DOMAIN imp.members :
        /\ j > k
        /\ imp.members[j].original_id = imp.members[k].original_id
        /\ imp.members[j].outcome = "clone"

\* the link of record k made no Member row and left M as it was, with the
\* region memberships it had
LinkFrame(k) ==
    LET M == imp.members[k].id
    IN  imp.pc # "failed" =>
            /\ Cardinality(NewMembers) =
                    Cardinality({j \in DOMAIN imp.members : imp.members[j].outcome = "clone"})
            /\ imp.view.members[M] = imp.pre.members[M]
            /\ RegionsOf(imp.pre, M) \subseteq RegionsOf(imp.view, M)

\* the id map sends the original id of record k to M, and the spouse
\* records naming it attach to M
AttachedTo(k) ==
    LET M == imp.members[k].id
        o == imp.members[k].original_id
    IN  /\ o \in DOMAIN imp.id_map /\ imp.id_map[o] = M
        /\ \A j \in DOMAIN imp.spouses :
                /\ imp.spouses[j].member1_original_id = o => imp.spouses[j].a = M
                /\ imp.spouses[j].member2_original_id = o => imp.spouses[j].b = M

Materialized(o, n) ==
    {k \in DOMAIN imp.members :
        k < n /\ imp.members[k].original_id = o /\ imp.members[k].outcome # "skip"}

Lookup(o, n) ==
    IF Materialized(o, n) # {}
    THEN imp.members[CHOOSE k \in Materialized(o, n) :
                        \A j \in Materialized(o, n) : j <= k].id
    ELSE IF o \in DOMAIN imp.pre.members THEN o
    ELSE None

C29_NoSelfRelationship ==
    imp.pc = "done" =>
        /\ \A r \in db.spouses \ imp.pre.spouses : r.member1_id # r.member2_id
        /\ \A r \in db.parent_child \ imp.pre.parent_child : r.parent_id # r.child_id

\* the membership rows a committed import added to members stored before it
AddedToStored ==
    {mr \in db.member_regions \ imp.pre.member_regions :
        mr[1] \in DOMAIN imp.pre.members}

\* C28: every region membership a committed import added to a member that
\* was stored before it is to a Region of the Family the import created;
\* the regions of the families stored before are all kept, unchanged, with
\* the members they had and no other.
C28_ImportRegionFrame ==
    imp.pc = "done" =>
        /\ \A mr \in AddedToStored :
                /\ mr[2] \in DOMAIN db.regions \ DOMAIN imp.pre.regions
                /\ db.regions[mr[2]].family_id = imp.family
        /\ \A r \in DOMAIN imp.pre.regions :
                /\ r \in DOMAIN db.regions
                /\ db.regions[r] = imp.pre.regions[r]
                /\ \A m \in DOMAIN db.members :
                        <<m, r>> \in db.member_regions
                            <=> <<m, r>> \in imp.pre.member_regions

C28_Witness ==
    /\ imp.pc = "done"
    /\ \E mr \in AddedToStored :
            \E r \in DOMAIN imp.pre.regions :
                /\ <<mr[1], r>> \in imp.pre.member_regions
                /\ imp.pre.regions[r].family_id # imp.family
                /\ <<mr[1], r>> \in db.member_regions

\* the relationship rows a committed import created
NewSpouses == db.spouses \ imp.pre.spouses

NewParentChild == db.parent_child \ imp.pre.parent_child

\* the members the import cloned or linked: the values of its id map
IdMapValues == {imp.id_map[o] : o \in DOMAIN imp.id_map}

\* the original ids of the member records that were cloned or linked
MaterializedIds ==
    {imp.members[k].original_id :
        k \in {j \in DOMAIN imp.members : imp.members[j].outcome # "skip"}}

\* C27 as stated: every relationship row created by import_family has both
\* endpoints among the values of the id map of that import, and a
\* relationship record naming an original id that no cloned or linked member
\* record of the document carries creates no row.
C27_Original ==
    imp.pc = "done" =>
        /\ \A r \in NewSpouses : {r.member1_id, r.member2_id} \subseteq IdMapValues
        /\ \A r \in NewParentChild : {r.parent_id, r.child_id} \subseteq IdMapValues
        /\ \A j \in DOMAIN imp.spouses :
                {imp.spouses[j].member1_original_id,
                 imp.spouses[j].member2_original_id} \subseteq MaterializedIds
                    \/ ~imp.spouses[j].added
        /\ \A j \in DOMAIN imp.parent_child :
                {imp.parent_child[j].parent_original_id,
                 imp.parent_child[j].child_original_id} \subseteq MaterializedIds
                    \/ ~imp.parent_child[j].added

\* C27: every relationship row created by import_family has both endpoints
\* among the members cloned or linked by that import and the Members that
\* were stored when it began; a relationship record naming an original id
\* that is neither the original id of a cloned or linked member record nor
\* the id of a stored Member creates no row.
C27_Endpoints ==
    imp.pc = "done" =>
        /\ \A r \in NewSpouses :
                {r.member1_id, r.member2_id}
                    \subseteq IdMapValues \cup DOMAIN imp.pre.members
        /\ \A r \in NewParentChild :
                {r.parent_id, r.child_id}
                    \subseteq IdMapValues \cup DOMAIN imp.pre.members
        /\ \A j \in DOMAIN imp.spouses :
                {imp.spouses[j].member1_original_id,
                 imp.spouses[j].member2_original_id}
                    \subseteq MaterializedIds \cup DOMAIN imp.pre.members
                    \/ ~imp.spouses[j].added
        /\ \A j \in DOMAIN imp.parent_child :
                {imp.parent_child[j].parent_original_id,
                 imp.parent_child[j].child_original_id}
                    \subseteq MaterializedIds \cup DOMAIN imp.pre.members
                    \/ ~imp.parent_child[j].added

C27_Witness ==
    /\ imp.pc = "done"
    /\ \E r \in NewSpouses :
        /\ r.member1_id \in IdMapValues \ DOMAIN imp.pre.members
        /\ r.member2_id \in DOMAIN imp.pre.members \ IdMapValues
    /\ \E k \in DOMAIN imp.members : imp.members[k].outcome = "link"

(***************************************************************************)
(* Regions of a document: up to MaxRegions region records, some with the   *)
(* same original id or none, and cloned members that name them.            *)
(***************************************************************************)
NamedRegionRecords ==
    [original_id : {"", "a", " a", "b"}, linked_family_id : {None}]

RegionMemberRecords ==
    [original_id : {ExtMemberId}, region_ids : SUBSET {"a", " a", "b"},
     position_x : {0}, position_y : {0}]

NextRegions ==
    \/ imp.pc = "idle" /\ \E n \in 0..MaxDocMembers : \E u \in Users :
            ImportBegin([k \in 1..n |-> None], u)
    \/ \E r \in NamedRegionRecords : ImportRegion(r)
    \/ \E m \in RegionMemberRecords : ImportMember(m)
    \/ ImportCommit

SpecRegions == Init /\ [][NextRegions]_vars

\* region record r is the last one of the document with its original id
LastWithOriginalId(r) ==
    /\ imp.regions[r].original_id # ""
    /\ \A q \in DOMAIN imp.regions :
            Strip(imp.regions[q].original_id) = Strip(imp.regions[r].original_id) => q <= r

\* the new regions the original region ids rids stand for
MappedRegions(rids) ==
    {imp.regions[r].id :
        r \in {q \in DOMAIN imp.regions :
                /\ LastWithOriginalId(q)
                /\ \E rid \in rids : Strip(rid) = Strip(imp.regions[q].original_id)}}

\* C18: the explicit regions of a cloned member are exactly the new regions
\* that the record's original region ids stand for in the document's
\* region records; an original region id no region record carries adds
\* nothing and the import goes on.
C18_CloneRegions ==
    imp.pc # "failed" =>
        \A k \in DOMAIN imp.members :
            imp.members[k].outcome = "clone" =>
                RegionsOf(imp.view, imp.members[k].id)
                    = MappedRegions(imp.members[k].region_ids)

C18_Witness ==
    /\ imp.pc = "done"
    /\ Len(imp.regions) = 2
    /\ \E k \in DOMAIN imp.members :
        /\ imp.members[k].outcome = "clone"
        /\ imp.members[k].region_ids = {" a", "b"}
        /\ RegionsOf(db, imp.members[k].id) = {imp.regions[1].id}
        /\ imp.regions[2].original_id = ""

\* the MemberPosition rows of member m in family f
PositionRows(d, m, f) == {p \in d.positions : p.member_id = m /\ p.family_id = f}

\* C11: after a committed import every member record that was cloned or
\* linked has exactly one MemberPosition row for (its member, the new
\* Family); the row of a member that had none before the call is at (0, 0),
\* and a row that existed before the call is kept as it was.
C11_MemberPositions ==
    imp.pc = "done" =>
        \A k \in DOMAIN imp.members :
            imp.members[k].outcome \in {"clone", "link"} =>
                LET before == PositionRows(imp.pre, imp.members[k].id, imp.family)
                    after  == PositionRows(db, imp.members[k].id, imp.family)
                IN  /\ Cardinality(after) = 1
                    /\ before = {} => \A p \in after : p.x = 0 /\ p.y = 0
                    /\ before # {} => after = before

(***************************************************************************)
(* Source-family detection: import_family is called with documents of up   *)
(* to MaxSourceIds member records over the families stored.                *)
(***************************************************************************)
SourceFamIdSeqs == UNION {[1..n -> DocFamilyIds] : n \in 0..MaxSourceIds}

NextSource ==
    \/ nextId.family < MaxFamilies /\ \E u \in Users : CreateFamily(u)
    \/ imp.pc = "idle" /\ \E fam_ids \in SourceFamIdSeqs : \E u \in Users :
            ImportBegin(fam_ids, u)
    \/ ImportFail

SpecSource == Init /\ [][NextSource]_vars

\* the member records that declare a source-family id, and how many of them
\* declare v
Declaring == {k \in DOMAIN imp.fam_ids : imp.fam_ids[k] # None}

Occurrences(v) == Cardinality({k \in Declaring : imp.fam_ids[k] = v})

\* C15: the source family of an import is one of the declared source-family
\* ids and none of them is declared by more member records; it is None
\* when no member record declares one.
C15_SourceFamily ==
    imp.pc # "idle" =>
        /\ Declaring = {} => imp.source_family_id = None
        /\ Declaring # {} =>
                /\ \E k \in Declaring : imp.fam_ids[k] = imp.source_family_id
                /\ \A k \in Declaring :
                        Occurrences(imp.fam_ids[k]) <= Occurrences(imp.source_family_id)

C15_Witness ==
    /\ imp.pc # "idle"
    /\ Len(imp.fam_ids) = 3
    /\ imp.fam_ids[1] \notin {None, imp.source_family_id}
    /\ Occurrences(imp.source_family_id) = 2

(***************************************************************************)
(* Spouse records of an import: members and spouse rows are stored, then   *)
(* a document with member records and spouse records is imported.          *)
(***************************************************************************)
PlainMemberRecords ==
    [original_id : DocMemberIds, region_ids : {{}}, position_x : {0}, position_y : {0}]

RelFamIdSeqs ==
    UNION {[1..n -> {None, ExtFamilyId, 1}] : n \in 0..MaxDocMembers}

SetupRel ==
    /\ imp.pc = "idle"
    /\ \/ nextId.family = 1 /\ \E u \in Users : CreateFamily(u)
       \/ nextId.member <= MaxStored /\ CreateMember(1, {}, 0, 0)

ImportMembersOnly ==
    \/ imp.pc = "idle" /\ \E fam_ids \in RelFamIdSeqs : \E u \in Users :
            ImportBegin(fam_ids, u)
    \/ \E m \in PlainMemberRecords : ImportMember(m)
    \/ ImportCommit

NextSpouse ==
    \/ SetupRel
    \/ imp.pc = "idle" /\ \E a, b \in MemberIds : CreateSpouse(a, b, None)
    \/ ImportMembersOnly
    \/ \E s \in SpouseRecords : ImportSpouse(s)

SpecSpouse == Init /\ [][NextSpouse]_vars

\* the SpouseRelationship rows of store d that join a and b
RowsJoining(d, a, b) ==
    {r \in d.spouses : {r.member1_id, r.member2_id} = {a, b}}

\* C4: after an import whose spouse records name the pair of A and B, once
\* or repeatedly, in either orientation, the store holds exactly one
\* SpouseRelationship row joining A and B, also when one existed before.
C4_OneSpouseRow ==
    imp.pc = "done" =>
        \A j \in DOMAIN imp.spouses :
            (/\ imp.spouses[j].a # None /\ imp.spouses[j].b # None
             /\ Cardinality(RowsJoining(imp.pre, imp.spouses[j].a, imp.spouses[j].b)) <= 1)
                => Cardinality(RowsJoining(db, imp.spouses[j].a, imp.spouses[j].b)) = 1

\* C12: an unresolvable link candidate or a duplicate spouse record never
\* makes import_family fail: the call commits, the new Family is stored,
\* every member record that is not skipped has its Member, and every spouse
\* record whose two ids resolve has a row joining the two members.
C12_SkipNeverFails ==
    imp.pc \in {"done", "failed"} =>
        /\ imp.pc = "done"
        /\ imp.family \in DOMAIN db.families
        /\ \A k \in DOMAIN imp.members :
                imp.members[k].outcome # "skip" => imp.members[k].id \in DOMAIN db.members
        /\ \A j \in DOMAIN imp.spouses :
                (imp.spouses[j].a # None /\ imp.spouses[j].b # None) =>
                    RowsJoining(db, imp.spouses[j].a, imp.spouses[j].b) # {}

(***************************************************************************)
(* import_family_from_preset: the preset file is read, its user_id is      *)
(* replaced by the caller's, the document is validated and imported.       *)
(***************************************************************************)
Callers == {1, 2}

\* the keys of file_map, and a key it does not have
file_map == {"han_dynasty", "tang_dynasty", "ming_dynasty"}

PresetKeys == {"han_dynasty", "unknown"}

\* the preset documents: the user_id they carry (None: they carry none) and
\* the source-family ids of their member records
PresetDocs == [user_id : {None} \cup Callers, fam_ids : RelFamIdSeqs]

\* the override left out: the preset's owner is trusted
trusted_owner(data, user_id) == data

\* data["user_id"] = user_id
override_owner(data, user_id) == [data EXCEPT !.user_id = user_id]

\* schemas.FamilyImport.model_validate: user_id is a required str
model_validate(data) == data.user_id # None

PresetCall(key, data, user_id, result) ==
    [op |-> "import_family_from_preset", key |-> key, user_id |-> user_id,
     data_user_id |-> data.user_id, result |-> result]

\* import_family_from_preset(db, key, user_id) on the preset document `data`,
\* up to the Family row of import_family
ImportFromPreset(key, data, user_id) ==
    LET import_data == override_owner(data, user_id)
    IN  IF key \notin file_map
        THEN /\ ~Importing
             /\ last' = PresetCall(key, data, user_id, "None")
             /\ imp' = ImpIdle
             /\ graph' = NoGraph
             /\ UNCHANGED <<db, nextId, autoflush, peer, del>>
        ELSE IF ~model_validate(import_data)
        THEN /\ ~Importing
             /\ last' = PresetCall(key, data, user_id, "ValidationError")
             /\ imp' = ImpIdle
             /\ graph' = NoGraph
             /\ UNCHANGED <<db, nextId, autoflush, peer, del>>
        ELSE ImportCall(import_data.fam_ids, import_data.user_id,
                        PresetCall(key, data, user_id, "import_family"))

NextPreset ==
    \/ nextId.family = 1 /\ \E u \in Callers : CreateFamily(u)
    \/ nextId.member <= MaxStored /\ CreateMember(1, {}, 0, 0)
    \/ imp.pc = "idle" /\ \E key \in PresetKeys : \E data \in PresetDocs :
            \E u \in Callers : ImportFromPreset(key, data, u)
    \/ \E m \in PlainMemberRecords : ImportMember(m)
    \/ ImportCommit
    \/ ImportFail

SpecPreset == Init /\ [][NextPreset]_vars

PresetImported == last.op = "import_family_from_preset" /\ last.key \in file_map

\* C13: the Family that import_family_from_preset(key, user_id) creates is
\* owned by the user_id argument whatever user_id the preset carries, and
\* the owner is set before the document is validated: a preset without a
\* user_id is imported all the same.
C13_PresetOwner ==
    PresetImported =>
        /\ last.result = "import_family"
        /\ imp.family # None
        /\ imp.family \in DOMAIN imp.view.families =>
                imp.view.families[imp.family].user_id = last.user_id
        /\ imp.pc = "done" =>
                /\ imp.family \in DOMAIN db.families
                /\ db.families[imp.family].user_id = last.user_id

C13_Witness ==
    /\ PresetImported
    /\ imp.pc = "done"
    /\ last.data_user_id \notin {None, last.user_id}
    /\ \E f \in DOMAIN db.families : db.families[f].user_id = last.data_user_id

(***************************************************************************)
(* Parent-child records of an import.                                      *)
(***************************************************************************)
NextParentChild ==
    \/ SetupRel
    \/ imp.pc = "idle" /\ \E a, b \in MemberIds : \E t \in RelTypes :
            CreateParentChild(a, b, t)
    \/ ImportMembersOnly
    \/ \E pc \in ParentChildRecords : ImportParentChild(pc)

SpecParentChild == Init /\ [][NextParentChild]_vars

\* the (parent, child, type) a parent-child record resolved to
Triple(rec) == <<rec.p, rec.c, rec.relationship_type>>

\* C5: the store never holds two ParentChildRelationship rows with the same
\* (parent_id, child_id, relationship_type); a record whose resolved triple
\* exists already, in the store or from an earlier record of the document,
\* is skipped, and one that differs only in relationship_type is inserted.
C5_ParentChildSkipped ==
    /\ unique_parent_child(db.parent_child)
    /\ \A j \in DOMAIN imp.parent_child :
        LET rec == imp.parent_child[j]
            known == \/ \E r \in imp.pre.parent_child : ParentChildKey(r) = Triple(rec)
                     \/ \E k \in 1..(j-1) : Triple(imp.parent_child[k]) = Triple(rec)
        IN  (rec.p # None /\ rec.c # None) => (rec.added <=> ~known)
    /\ imp.pc = "done" =>
            \A j \in DOMAIN imp.parent_child :
                LET rec == imp.parent_child[j]
                IN  (rec.p # None /\ rec.c # None) =>
                        ParentChildRow(rec.p, rec.c, rec.relationship_type)
                            \in db.parent_child
    /\ imp.pc # "failed"   \* no storage error is raised here: a skip cannot fail

(***************************************************************************)
(* Two import_family calls served at the same time, each in its own        *)
(* Session: their documents carry no member records and at most one        *)
(* spouse and one parent-child record each, naming stored members.         *)
(***************************************************************************)
NextConcurrent ==
    \/ peer.pc = "idle" /\ SetupRel
    \/ imp.pc = "idle" /\ \E u \in Users : ImportBegin(<<>>, u)
    \/ imp.spouses = <<>> /\ \E s \in SpouseRecords : ImportSpouse(s)
    \/ imp.parent_child = <<>> /\ \E pc \in ParentChildRecords :
            pc.relationship_type = "father" /\ ImportParentChild(pc)
    \/ ImportCommit
    \/ Switch

SpecConcurrent == Init /\ [][NextConcurrent]_vars

\* both calls have returned or raised
BothFinished == imp.pc \in {"done", "failed"} /\ peer.pc \in {"done", "failed"}

\* C14: two import_family calls that run at the same time both commit, both
\* new Families are stored, and for every spouse or parent-child record of
\* either document whose ids resolve the store holds exactly one row joining
\* the pair, as it would after the two calls had run one after the other.
C14_ConcurrentImports ==
    BothFinished =>
        /\ imp.pc = "done" /\ peer.pc = "done"
        /\ {imp.family, peer.family} \subseteq DOMAIN db.families
        /\ \A st \in {imp, peer} :
            /\ \A j \in DOMAIN st.spouses :
                    (st.spouses[j].a # None /\ st.spouses[j].b # None) =>
                        Cardinality(RowsJoining(db, st.spouses[j].a, st.spouses[j].b)) = 1
            /\ \A j \in DOMAIN st.parent_child :
                    (st.parent_child[j].p # None /\ st.parent_child[j].c # None) =>
                        ParentChildRow(st.parent_child[j].p, st.parent_child[j].c,
                                       st.parent_child[j].relationship_type)
                            \in db.parent_child

(***************************************************************************)
(* Deleting members: one family, its regions and members, then             *)
(* delete_member and delete_members.                                       *)
(***************************************************************************)
NextDelete ==
    \/ nextId.family = 1 /\ \E u \in Users : CreateFamily(u)
    \/ CreateRegion(1)
    \/ \E rs \in SUBSET RegionIds : CreateMember(1, rs, 0, 0)
    \/ \E a, b \in MemberIds : CreateSpouse(a, b, None)
    \/ \E m \in MemberIds : DeleteMember(m)
    \/ \E ids \in SUBSET MemberIds : DeleteMembers(ids)

SpecDelete == Init /\ [][NextDelete]_vars

Deleted == last.op \in {"delete_member", "delete_members"}

\* the regions the deleted members explicitly belonged to
RegionsOfDeleted ==
    {r \in DOMAIN last.pre.regions :
        \E m \in last.ids : m \in DOMAIN last.pre.members /\ <<m, r>> \in last.pre.member_regions}

\* the explicit members a region is left with
MembersLeft(r) ==
    {m \in DOMAIN last.pre.members \ last.ids : <<m, r>> \in last.pre.member_regions}

\* C10: delete_member and delete_members delete every region the deleted
\* members explicitly belonged to that is left without explicit member, and
\* keep every such region that still has one.
C10_EmptyRegionsDeleted ==
    Deleted =>
        \A r \in RegionsOfDeleted :
            /\ MembersLeft(r) = {} => r \notin DOMAIN db.regions
            /\ MembersLeft(r) # {} =>
                    /\ r \in DOMAIN db.regions
                    /\ db.regions[r] = last.pre.regions[r]
                    /\ \A m \in MembersLeft(r) : <<m, r>> \in db.member_regions

C10_WitnessBulk ==
    /\ last.op = "delete_members"
    /\ \E r1, r2 \in RegionsOfDeleted :
        /\ MembersLeft(r1) = {} /\ r1 \notin DOMAIN db.regions
        /\ MembersLeft(r2) # {} /\ r2 \in DOMAIN db.regions

C10_Witness ==
    /\ last.op = "delete_member"
    /\ \E r1, r2 \in RegionsOfDeleted :
        /\ MembersLeft(r1) = {} /\ r1 \notin DOMAIN db.regions
        /\ MembersLeft(r2) # {} /\ r2 \in DOMAIN db.regions

\* delete_member called once for each id of a list, in the list's order
RECURSIVE DeleteEach(_, _)
DeleteEach(d, ids) ==
    IF ids = <<>> THEN d ELSE DeleteEach(delete_member(d, Head(ids)), Tail(ids))

\* the lists that hold each id of a set once
Orders(S) == {seq \in [1..Cardinality(S) -> S] : Range(seq) = S}

\* C26: delete_members(ids) leaves the store that delete_member called once
\* for each of the ids leaves, in whatever order the calls are made.
C26_BulkEqualsEach ==
    last.op = "delete_members" =>
        \A seq \in Orders(last.ids) : db = DeleteEach(last.pre, seq)

C26_Witness ==
    /\ last.op = "delete_members"
    /\ Cardinality(last.ids \cap DOMAIN last.pre.members) = 2
    /\ last.ids \ DOMAIN last.pre.members # {}
    /\ last.pre.spouses # {} /\ db.spouses = {}
    /\ \E r \in RegionsOfDeleted :
        /\ Cardinality({m \in last.ids : <<m, r>> \in last.pre.member_regions}) = 2
        /\ r \notin DOMAIN db.regions

\* the member a delete_member call was made for
DeletedOne == CHOOSE m \in last.ids : TRUE

\* C30: delete_member(m) removes m, the relationships and memberships of m
\* and the regions of m that it left empty, and changes no other row; when
\* m names no stored Member the store is unchanged and nothing is returned.
C30_DeleteMemberFrame ==
    last.op = "delete_member" =>
        LET m == DeletedOne
            P == last.pre
        IN  IF m \notin DOMAIN P.members
            THEN db = P /\ last.result = {}
            ELSE /\ last.result = {m}
                 /\ db.families = P.families
                 /\ db.members = Restrict(P.members, DOMAIN P.members \ {m})
                 /\ db.spouses = {s \in P.spouses : m \notin {s.member1_id, s.member2_id}}
                 /\ db.parent_child =
                        {pc \in P.parent_child : m \notin {pc.parent_id, pc.child_id}}
                 /\ db.positions = {p \in P.positions : p.member_id # m}
                 /\ db.member_regions = {mr \in P.member_regions : mr[1] # m}
                 /\ \A r \in DOMAIN P.regions :
                        IF <<m, r>> \in P.member_regions /\ MembersLeft(r) = {}
                        THEN r \notin DOMAIN db.regions
                        ELSE r \in DOMAIN db.regions /\ db.regions[r] = P.regions[r]
                 /\ DOMAIN db.regions \subseteq DOMAIN P.regions

C30_Witness ==
    /\ last.op = "delete_member"
    /\ DeletedOne \in DOMAIN last.pre.members
    /\ \E r \in RegionsOfDeleted : r \notin DOMAIN db.regions
    /\ \E r \in DOMAIN db.regions : MemberCount(last.pre, r) = 0
    /\ \E s \in last.pre.spouses : s \notin db.spouses
    /\ db.spouses # {}

C30_WitnessNotFound ==
    /\ last.op = "delete_member"
    /\ DeletedOne \notin DOMAIN last.pre.members
    /\ last.pre.members # <<>>

(***************************************************************************)
(* Reading graphs: families, regions, members with positions and           *)
(* relationships are stored, regions with a linked family are imported,    *)
(* and get_family_graph is called on the result.                           *)
(***************************************************************************)
LinkedRegionRecords ==
    [original_id : {""}, linked_family_id : {f \in FamilyIds : f < imp.family}]

NextGraph ==
    \/ nextId.family < MaxFamilies /\ \E u \in Users : CreateFamily(u)
    \/ \E f \in FamilyIds : CreateRegion(f)
    \/ \E f \in FamilyIds : \E rs \in SUBSET RegionIds :
            nextId.member <= MaxStored /\ CreateMember(f, rs, 0, 0)
    \/ \E f \in FamilyIds : \E m \in MemberIds :
            db.positions = {} /\ UpdateMembersPositions(f, m, 1, 1)
    \/ \E u \in Users : ImportBegin(<<>>, u)
    \/ Len(imp.regions) < MaxDocRegions /\ \E r \in LinkedRegionRecords : ImportRegion(r)
    \/ ImportCommit
    \/ \E f \in FamilyIds : GetFamilyGraph(f)

SpecGraph == Init /\ [][NextGraph]_vars

\* relationships between members of two families, and the graphs of both
NextEdges ==
    \/ nextId.family < MaxFamilies /\ \E u \in Users : CreateFamily(u)
    \/ \E f \in FamilyIds : nextId.member <= MaxStored /\ CreateMember(f, {}, 0, 0)
    \/ \E a, b \in MemberIds : \E d \in Dates : CreateSpouse(a, b, d)
    \/ \E a, b \in MemberIds : \E t \in RelTypes : CreateParentChild(a, b, t)
    \/ \E f \in FamilyIds : GetFamilyGraph(f)

SpecEdges == Init /\ [][NextEdges]_vars

\* the members get_family_graph selected
Selected == {graph.nodes[n].id : n \in DOMAIN graph.nodes}

\* the families linked by a region of family F
LinkedFamilies(F) ==
    {db.regions[r].linked_family_id :
        r \in {q \in DOMAIN db.regions :
                db.regions[q].family_id = F /\ db.regions[q].linked_family_id # None}}

\* C7: get_family_graph(F) returns one node for each member whose home
\* family is F, whose home family is linked by a region of F, or who is an
\* explicit member of a region of F; no other node, and no member twice.
C7_GraphNodes ==
    graph # NoGraph =>
        /\ Selected =
            {m \in DOMAIN db.members :
                \/ db.members[m].family_id = graph.family_id
                \/ db.members[m].family_id \in LinkedFamilies(graph.family_id)
                \/ \E r \in DOMAIN db.regions :
                        /\ db.regions[r].family_id = graph.family_id
                        /\ <<m, r>> \in db.member_regions}
        /\ Cardinality(Selected) = Len(graph.nodes)

\* C8: the (x, y) of the node of member M in the graph of F is that of the
\* MemberPosition row of (M, F) when there is one, and (0, 0) otherwise.
C8_NodePositions ==
    graph # NoGraph =>
        \A n \in DOMAIN graph.nodes :
            LET rows == {p \in db.positions :
                            /\ p.member_id = graph.nodes[n].id
                            /\ p.family_id = graph.family_id}
            IN  /\ \A p \in rows : graph.nodes[n].x = p.x /\ graph.nodes[n].y = p.y
                /\ rows = {} => graph.nodes[n].x = 0 /\ graph.nodes[n].y = 0

\* the number of edges of the graph that equal e
EdgeCount(e) == Cardinality({i \in DOMAIN graph.edges : graph.edges[i] = e})

\* C9: get_family_graph(F) returns exactly one edge for each spouse row and
\* each parent-child row with at least one endpoint among the selected
\* members and none for the other rows; a spouse edge goes from member1 to
\* member2 with type "spouse" and the marriage date, a parent-child edge
\* from parent to child with type "parent-child" and the relationship type
\* as label.
C9_GraphEdges ==
    graph # NoGraph =>
        /\ \A s \in db.spouses :
            EdgeCount([id |-> <<"spouse", s.member1_id, s.member2_id>>,
                       source |-> s.member1_id, target |-> s.member2_id,
                       type |-> "spouse", label |-> "",
                       data |-> s.marriage_date])
              = IF s.member1_id \in Selected \/ s.member2_id \in Selected THEN 1 ELSE 0
        /\ \A pc \in db.parent_child :
            EdgeCount([id |-> <<"parent-child", pc.parent_id, pc.child_id,
                                pc.relationship_type>>,
                       source |-> pc.parent_id, target |-> pc.child_id,
                       type |-> "parent-child", label |-> pc.relationship_type,
                       data |-> None])
              = IF pc.parent_id \in Selected \/ pc.child_id \in Selected THEN 1 ELSE 0
        /\ Len(graph.edges) =
                Cardinality({s \in db.spouses :
                    s.member1_id \in Selected \/ s.member2_id \in Selected})
                + Cardinality({pc \in db.parent_child :
                    pc.parent_id \in Selected \/ pc.child_id \in Selected})

C9_Witness ==
    /\ graph # NoGraph
    /\ \E s \in db.spouses : s.member1_id \in Selected /\ s.member2_id \notin Selected
                                /\ s.marriage_date # None
    /\ \E s \in db.spouses : s.member1_id \notin Selected /\ s.member2_id \notin Selected
    /\ \E pc \in db.parent_child : pc.parent_id \notin Selected /\ pc.child_id \in Selected

(***************************************************************************)
(* Region ids of graph nodes: one import creates up to MaxRegions regions  *)
(* that link stored families, regions without link and members with        *)
(* explicit regions are stored, and get_family_graph is called.            *)
(***************************************************************************)
NextNodeRegions ==
    \/ nextId.family < MaxFamilies /\ \E u \in Users : CreateFamily(u)
    \/ \E f \in FamilyIds : CreateRegion(f)
    \/ \E f \in FamilyIds : \E rs \in SUBSET RegionIds :
            nextId.member <= MaxStored /\ CreateMember(f, rs, 0, 0)
    \/ \E u \in Users : ImportBegin(<<>>, u)
    \/ \E r \in LinkedRegionRecords : ImportRegion(r)
    \/ ImportCommit
    \/ \E f \in FamilyIds : GetFamilyGraph(f)

SpecNodeRegions == Init /\ [][NextNodeRegions]_vars

\* the explicit region memberships of member m
Explicit(m) == {r \in DOMAIN db.regions : <<m, r>> \in db.member_regions}

\* the regions of family F whose linked_family_id is the home family of m
Linking(F, m) ==
    {r \in DOMAIN db.regions :
        /\ db.regions[r].family_id = F
        /\ db.regions[r].linked_family_id = db.members[m].family_id}

\* C20: the region-id set of the node of a member selected by
\* get_family_graph(F) is its explicit region memberships when no region of
\* F links its home family, and its explicit region memberships plus the id
\* of one region of F that links its home family otherwise.
C20_NodeRegionIds ==
    graph # NoGraph =>
        \A n \in DOMAIN graph.nodes :
            LET m == graph.nodes[n].id
            IN  IF Linking(graph.family_id, m) = {}
                THEN graph.nodes[n].region_ids = Explicit(m)
                ELSE \E r \in Linking(graph.family_id, m) :
                        graph.nodes[n].region_ids = Explicit(m) \cup {r}

C20_Witness ==
    /\ graph # NoGraph
    /\ \E n \in DOMAIN graph.nodes :
        LET m == graph.nodes[n].id
        IN  /\ Cardinality(Linking(graph.family_id, m)) = 2
            /\ Cardinality(Explicit(m)) = 1
            /\ Cardinality(graph.nodes[n].region_ids) = 2

\* C21: the regions returned by get_family_graph(F) are exactly the Region
\* rows whose family_id is F, with or without members; a region of another
\* family is not among them even when a selected member belongs to it.
C21_GraphRegions ==
    graph # NoGraph =>
        /\ \A r \in DOMAIN db.regions :
                r \in graph.regions <=> db.regions[r].family_id = graph.family_id
        /\ graph.regions \subseteq DOMAIN db.regions

C21_Witness ==
    /\ graph # NoGraph
    /\ \E r \in graph.regions : MemberCount(db, r) = 0
    /\ \E n \in DOMAIN graph.nodes : \E r \in DOMAIN db.regions :
        /\ <<graph.nodes[n].id, r>> \in db.member_regions
        /\ db.regions[r].family_id # graph.family_id
        /\ r \notin graph.regions

(***************************************************************************)
(* Members and their regions: members are created in regions, moved        *)
(* between regions by update_member, and deleted one by one or in bulk.    *)
(***************************************************************************)
UpdateDatas ==
    {[region_ids |-> rs] : rs \in SUBSET RegionIds}
    \cup {[position_x |-> x] : x \in Coords}
    \cup {[region_ids |-> rs, position_x |-> 1] : rs \in SUBSET RegionIds}

NextUpdate ==
    \/ nextId.family = 1 /\ \E u \in Users : CreateFamily(u)
    \/ CreateRegion(1)
    \/ nextId.member <= MaxStored /\ \E rs \in SUBSET RegionIds : CreateMember(1, rs, 0, 0)
    \/ \E m \in MemberIds : \E u \in UpdateDatas : UpdateMember(m, u)
    \/ \E m \in MemberIds : DeleteMember(m)
    \/ \E ms \in SUBSET MemberIds : DeleteMembers(ms)

SpecUpdate == Init /\ [][NextUpdate]_vars

\* C22: when update_member, delete_member or delete_members removes the
\* last explicit member of a Region, the Region is deleted: no Region that
\* had an explicit member before the operation is stored with none after it.
C22_EmptiedRegionDeleted ==
    last.op \in {"update_member", "delete_member", "delete_members"} =>
        \A r \in DOMAIN last.pre.regions :
            (MemberCount(last.pre, r) > 0 /\ MemberCount(db, r) = 0)
                => r \notin DOMAIN db.regions

(***************************************************************************)
(* Deleting members of regions that link a family: regions with a linked   *)
(* family are imported, members are created in them and deleted.           *)
(***************************************************************************)
NextLinkedDelete ==
    \/ nextId.family = 1 /\ \E u \in Users : CreateFamily(u)
    \/ \E f \in FamilyIds : \E rs \in SUBSET RegionIds : CreateMember(f, rs, 0, 0)
    \/ nextId.family = 2 /\ \E u \in Users : ImportBegin(<<>>, u)
    \/ \E r \in RegionRecords : r.original_id = "" /\ ImportRegion(r)
    \/ ImportCommit
    \/ \E m \in MemberIds : DeleteMember(m)
    \/ \E ids \in SUBSET MemberIds : DeleteMembers(ids)

SpecLinkedDelete == Init /\ [][NextLinkedDelete]_vars

\* the stored members whose home family is the linked family of region r
ImplicitMembers(r) ==
    {m \in DOMAIN db.members :
        db.members[m].family_id = last.pre.regions[r].linked_family_id}

\* C23: after delete_member and delete_members a region the deleted members
\* explicitly belonged to is deleted exactly when no explicit membership
\* row of it is left, whatever its linked_family_id and however many
\* stored members have that family as home family.
C23_GcByExplicitCount ==
    Deleted =>
        \A r \in RegionsOfDeleted :
            r \notin DOMAIN db.regions <=> MembersLeft(r) = {}

C23_Witness ==
    /\ Deleted
    /\ \E r \in RegionsOfDeleted :
        /\ last.pre.regions[r].linked_family_id # None
        /\ ImplicitMembers(r) # {}
        /\ MembersLeft(r) = {}
        /\ r \notin DOMAIN db.regions
    /\ \E r \in RegionsOfDeleted :
        /\ MembersLeft(r) # {}
        /\ r \in DOMAIN db.regions

(***************************************************************************)
(* Creating and deleting rows of every table: families, regions, members,  *)
(* relationships, one import with a relationship record, and the deletes.  *)
(***************************************************************************)
NextIntegrity ==
    \/ nextId.family = 1 /\ \E u \in Users : CreateFamily(u)
    \/ nextId.region = 1 /\ \E f \in FamilyIds : CreateRegion(f)
    \/ nextId.member <= MaxStored /\ \E f \in FamilyIds : \E rs \in SUBSET {1} :
            CreateMember(f, rs, 0, 0)
    \/ nextId.member <= MaxStored /\ CreateMemberUnknownFamily(ExtFamilyId, 0, 0)
    \/ db.spouses = {} /\ \E a, b \in MemberIds : CreateSpouse(a, b, None)
    \/ db.parent_child = {} /\ \E a, b \in MemberIds : CreateParentChild(a, b, "father")
    \/ nextId.family = 2 /\ \E u \in Users : ImportBegin(<<None>>, u)
    \/ \E m \in MemberRecords : m.region_ids = {} /\ ImportMember(m)
    \/ imp.spouses = <<>> /\ \E s \in SpouseRecords : ImportSpouse(s)
    \/ ImportCommit
    \/ \E f \in FamilyIds : DeleteFamily(f)
    \/ DeleteRegion(1)
    \/ \E m \in MemberIds : DeleteMember(m)
    \/ DeleteMembers({1, 2})
    \/ \E a, b \in MemberIds : DeleteSpouse(a, b)
    \/ \E a, b \in MemberIds : DeleteParentChild(a, b, "father")

SpecIntegrity == Init /\ [][NextIntegrity]_vars

\* every foreign key of the committed store names a stored row
MembersHaveFamily == \A m \in DOMAIN db.members : db.members[m].family_id \in DOMAIN db.families

RelationshipsHaveMembers ==
    /\ \A s \in db.spouses :
            s.member1_id \in DOMAIN db.members /\ s.member2_id \in DOMAIN db.members
    /\ \A pc \in db.parent_child :
            pc.parent_id \in DOMAIN db.members /\ pc.child_id \in DOMAIN db.members

MembershipsHaveRows ==
    \A mr \in db.member_regions :
        mr[1] \in DOMAIN db.members /\ mr[2] \in DOMAIN db.regions

NoDelete == \A s \in Sessions : del[s].pc = "idle"

NextConcurrentDelete ==
    \/ NoDelete /\ nextId.family = 1 /\ \E u \in Users : CreateFamily(u)
    \/ NoDelete /\ CreateRegion(1)
    \/ NoDelete /\ \E rs \in SUBSET RegionIds : CreateMember(1, rs, 0, 0)
    \/ \E s \in Sessions : \E m \in MemberIds : DeleteMemberFlush(s, m)
    \/ \E s \in Sessions : DeleteMemberCount(s)
    \/ \E s \in Sessions : DeleteMemberCommit(s)

SpecConcurrentDelete == Init /\ [][NextConcurrentDelete]_vars

\* C25: when two delete_member calls that ran at the same time have both
\* committed, a Region both members belonged to that is left without
\* explicit member has been deleted.
C25_ConcurrentDeletes ==
    (\A s \in Sessions : del[s].pc = "done") =>
        \A r \in del[1].affected_regions \cap del[2].affected_regions :
            MemberCount(db, r) = 0 => r \notin DOMAIN db.regions

====
